---- MODULE Spec2Model ----
(***************************************************************************)
(* Speaking-practice recorder (bcomms): the transcript stream client       *)
(* (RevAiService), the audio capture unit (AudioRecorder) and the session  *)
(* state controller (Home, page.tsx).                                      *)
(*                                                                         *)
(* Text is a sequence of one-character strings, so that the JavaScript     *)
(* string operations of the reconciliation code (trim, includes, indexOf,  *)
(* split, slice, join, substring, replace) are computed as the code        *)
(* computes them.                                                          *)
(***************************************************************************)
EXTENDS Integers, Sequences, FiniteSets, TLC

\* ------------------------------------------------------------------ bounds
\* Longest text of a fragment the service sends at an arbitrary moment.
MaxFragLen == 3
\* Longest text of a fragment in a chain of incrementally growing partials.
MaxGrowLen == 8
\* Most characters by which a growing partial extends the previous one.
MaxExtLen == 2
\* Arbitrary fragments are received while the running transcript is at most
\* this long.
MaxTextLen == 5
\* Start actions (handleStartRecording invocations that pass its checks).
MaxStarts == 2
\* Try-again actions (the buttons and a scenario change outside idle).
MaxTryAgain == 1
\* Submit actions.
MaxSubmits == 1
\* Socket failures caused by the network or the remote service.
MaxWsErrors == 1
\* setup requests that are answered, and clicks on the button that stop a
\* recording
MaxSetupResponses == 1
MaxStops == 1

\* The stream client alone: calls of connect(), of finishTranscription() and
\* of sendAudioChunk()
MaxConnects == 2
MaxFinishes == 1
MaxChunks == 2

\* waitForJobCompletion: largest maxAttempts given to a call
MaxPollAttempts == 3

\* ------------------------------------------------------------------- text
Letters == {"a", "b"}
Whitespace == {" "}
Chars == Letters \cup Whitespace

RECURSIVE TextsOfLen(_)
TextsOfLen(n) ==
  IF n = 0 THEN {<<>>}
  ELSE {Append(s, c) : s \in TextsOfLen(n - 1), c \in Chars}

TextsUpTo(n) == UNION {TextsOfLen(k) : k \in 0..n}

\* String.prototype.trim
RECURSIVE TrimStart(_)
TrimStart(s) ==
  IF s = <<>> THEN s
  ELSE IF Head(s) \in Whitespace THEN TrimStart(Tail(s)) ELSE s

RECURSIVE TrimEnd(_)
TrimEnd(s) ==
  IF s = <<>> THEN s
  ELSE IF s[Len(s)] \in Whitespace THEN TrimEnd(SubSeq(s, 1, Len(s) - 1)) ELSE s

Trim(s) == TrimEnd(TrimStart(s))

\* String.prototype.includes
Includes(s, t) ==
  \E i \in 0..(Len(s) - Len(t)) : SubSeq(s, i + 1, i + Len(t)) = t

\* String.prototype.indexOf (zero-based, -1 when absent)
IndexOf(s, t) ==
  IF Includes(s, t)
  THEN CHOOSE i \in 0..(Len(s) - Len(t)) :
         /\ SubSeq(s, i + 1, i + Len(t)) = t
         /\ \A j \in 0..(i - 1) : SubSeq(s, j + 1, j + Len(t)) # t
  ELSE -1

\* String.prototype.substring(i)
Substring(s, i) == SubSeq(s, i + 1, Len(s))

\* String.prototype.split(' '): the pieces between single spaces
RECURSIVE Split(_)
Split(s) ==
  IF \A i \in 1..Len(s) : s[i] # " " THEN <<s>>
  ELSE LET k == CHOOSE i \in 1..Len(s) :
                  s[i] = " " /\ \A j \in 1..(i - 1) : s[j] # " "
       IN <<SubSeq(s, 1, k - 1)>> \o Split(SubSeq(s, k + 1, Len(s)))

\* Array.prototype.slice(-3)
SliceLast3(ws) == IF Len(ws) <= 3 THEN ws ELSE SubSeq(ws, Len(ws) - 2, Len(ws))

\* Array.prototype.join(' ')
RECURSIVE Join(_)
Join(ws) ==
  IF ws = <<>> THEN <<>>
  ELSE IF Len(ws) = 1 THEN ws[1]
  ELSE ws[1] \o <<" ">> \o Join(Tail(ws))

\* replace(/\s+/g, ' '): every run of whitespace becomes one space
RECURSIVE CollapseWhitespace(_)
CollapseWhitespace(s) ==
  IF s = <<>> THEN s
  ELSE IF Head(s) \in Whitespace
       THEN <<" ">> \o CollapseWhitespace(TrimStart(s))
       ELSE <<Head(s)>> \o CollapseWhitespace(Tail(s))

\* this.currentText.trim(), without the replace
NormalizeTrimOnly(s) == Trim(s)

\* this.currentText.replace(/\s+/g, ' ').trim()
Normalize(s) == Trim(CollapseWhitespace(s))

IsPrefix(p, s) == Len(p) <= Len(s) /\ SubSeq(s, 1, Len(p)) = p

\* ------------------------------------------------- RevAiService: reconciliation
\* processTranscription, message.type === 'final': the text kept as
\* this.currentText before the closing whitespace clean-up.
FinalReplacesAlways(currentTxt, transcriptText) ==
  IF Trim(transcriptText) # <<>> THEN transcriptText ELSE currentTxt

FinalMerge(currentTxt, transcriptText) ==
  IF Trim(transcriptText) # <<>>
  THEN IF Includes(currentTxt, transcriptText) /\ Len(currentTxt) > Len(transcriptText)
       THEN currentTxt
       ELSE transcriptText
  ELSE currentTxt

\* processTranscription, message.type === 'partial'.
PartialMerge(currentTxt, transcriptText) ==
  IF Trim(transcriptText) # <<>>
  THEN LET cleanText == Trim(transcriptText)
       IN IF Len(currentTxt) = 0
          THEN cleanText
          ELSE LET words == Split(currentTxt)
                   lastWords == Join(SliceLast3(words))
               IN IF Includes(cleanText, lastWords)
                  THEN LET overlapIndex == IndexOf(cleanText, lastWords)
                           newContent == Substring(cleanText, overlapIndex + Len(lastWords))
                       IN IF Trim(newContent) # <<>>
                          THEN currentTxt \o newContent
                          ELSE currentTxt
                  ELSE IF ~Includes(currentTxt, cleanText)
                       THEN currentTxt \o <<" ">> \o cleanText
                       ELSE currentTxt
  ELSE currentTxt

\* processTranscription: this.currentText when it returns.
ProcessTranscription(currentTxt, type, transcriptText) ==
  Normalize(IF type = "final" THEN FinalMerge(currentTxt, transcriptText)
            ELSE IF type = "partial" THEN PartialMerge(currentTxt, transcriptText)
            ELSE currentTxt)

\* -------------------------------------------------------------- variables
VARIABLES
  \* RevAiService
  currentText,        \* RevAiService.currentText
  websocket,          \* RevAiService.websocket: a socket, or 0 for null
  isConnected,        \* RevAiService.isConnected
  jobId,              \* RevAiService.jobId: the job of a socket, or 0 for undefined
  authToken,          \* RevAiService.authToken: the credential put in the socket's URL
  \* Home (page.tsx): React state and refs
  selectedScenario,   \* 0 for null
  recordingState,
  transcription,
  feedback,           \* "none" (undefined), "result" or "fallback"
  isAnalyzing,
  showFeedback,
  error,              \* "none" for null, else the message's kind
  apiStatus,          \* [known, revai, groq]; known is FALSE for null
  audioRecorderRef,   \* audioRecorderRef.current: a recorder, or 0 for null
  \* objects and pending work
  socks,              \* the WebSocket objects created so far
  recs,               \* the AudioRecorder objects created so far
  mrs,                \* the MediaRecorder objects created so far
  streams,            \* the MediaStream objects obtained so far
  atts,               \* the handleStartRecording invocations and where each one waits
  timers,             \* pending setTimeout callbacks, in the order they were armed
  ctx,                \* the instant of the running handler: [base, off]
  fbInFlight,         \* feedback requests awaiting their response
  \* counters of the environment's actions
  nStarts, nTryAgain, nSubmits, nWsErrors,
  \* history
  fbSent,             \* feedback requests issued by submit actions
  sentimentSent,      \* sentiment requests issued by submit actions
  lastReq,            \* the last of them: [scenario, transcription]
  resetDone,          \* the try-again reset has run and no start action followed
  stopHist,           \* what happened since the last stop action
  lastMsg,            \* the message handled last: [type, text, calls], calls being the
                      \* callbacks it caused (type "none" after a reset)
  lastPartial,        \* text of the last partial of an unbroken growing chain
  growing,            \* every fragment since the reset was a partial extending the one before
  \* RevAiService: what it has sent and what it waits for
  nChunks,            \* chunks handed to sendAudioChunk, numbered in that order
  converting,         \* chunks whose arrayBuffer() promise is pending
  wire,               \* frames sent with websocket.send, in order: [sock, data]
  endReqs,            \* endStream requests awaiting their response
  endPosted,          \* job ids of the endStream requests issued
  poll,               \* RevAiSentimentService.waitForJobCompletion: one call
  finalized           \* sockets on which finishTranscription was called while they
                      \* were open and had received 'connected'

reconVars == <<currentText, lastMsg, lastPartial, growing>>

sessionVars ==
  <<websocket, isConnected, jobId, authToken, selectedScenario, recordingState, transcription,
    feedback, isAnalyzing, showFeedback, error, apiStatus, audioRecorderRef, socks, recs,
    mrs, streams, atts, timers, ctx, fbInFlight, nStarts, nTryAgain, nSubmits, nWsErrors,
    fbSent, sentimentSent, lastReq, resetDone, stopHist>>

clientVars == <<nChunks, converting, wire, endReqs, endPosted, finalized>>

vars == <<reconVars, sessionVars, clientVars, poll>>

NoPoll == [pc |-> "idle", maxAttempts |-> 0, attempts |-> 0, log |-> <<>>, outcome |-> "none"]

NoMsg == [type |-> "none", text |-> <<>>, calls |-> <<>>]

\* ------------------------------------------------------- session: constants
\* the frame that ends the stream ('EOS'); audio frames are numbered from 1
EndOfStream == 0

\* setTimeout delays, in milliseconds
AutoTransitionMs == 500
StartDelayMs == 300
DummyIdleMs == 300
BackupFinalizeMs == 800
ProgressCheckMs == 2000
PromoteCheckMs == 3000
ForceTimeoutMs == 4000
TryAgainMs == 100
FinishWaitMs == 1000
RecorderStartDelayMs == 200
StallCheck1Ms == 500
StallCheck2Ms == 1000
StallCheck3Ms == 2000
RestartDelayMs == 200
StopDelayMs == 200

\* handleStopRecording: blob.size <= 4
SmallBlobLimit == 4
\* createDummyAudioChunk: new Uint8Array([0, 0, 0, 0])
DummyChunkBytes == 4
\* A chunk of encoded audio is larger than the dummy chunk; sizes are counted
\* up to the first value above the limit.
BlobCap == SmallBlobLimit + 1
RealChunkBytes == SmallBlobLimit + 1
\* establishWebSocketConnection is tried with three content types.
NumFormats == 3

\* useState('idle'): the recordingState seen by the callbacks created in the
\* mount-only effect, whose closures are never renewed.
MountRecordingState == "idle"

Scenarios == {1, 2}
\* The texts of the fragments received during a session.
SessionTexts == {<<>>, <<"a">>}

Attempts == 1..MaxStarts
NumSockets == 2 * MaxStarts + MaxWsErrors + MaxTryAgain
SocketIds == 1..NumSockets
RecorderIds == 1..MaxStarts
NumMediaRecorders == 2 * MaxStarts
MediaRecorderIds == 1..NumMediaRecorders
StreamIds == 1..MaxStarts

Min(a, b) == IF a < b THEN a ELSE b

NoSocket == [state |-> "unused", att |-> 0, greeted |-> FALSE, heard |-> FALSE]
NoRecorder ==
  [made |-> FALSE, mediaRecorder |-> 0, stream |-> 0, chunks |-> 0, bytes |-> 0,
   wrapped |-> FALSE, transcriptionFinalized |-> FALSE]
NoMediaRecorder ==
  [state |-> "unused", rec |-> 0, stream |-> 0, pendingData |-> FALSE, pendingStop |-> FALSE]
\* A start action waits for the setup response (pc "setup"), for the socket's
\* 'connected' message ("ws"), for the 300 ms delay ("delay"), for getUserMedia
\* ("gum"), for the recorder's 200 ms delay ("recdelay"); it has then started
\* the recorder ("done") or gone through its catch block ("failed").
NoAttempt == [pc |-> "none", sock |-> 0, fmt |-> 0, rec |-> 0]
\* The history of the latest stop action, kept until the user acts again:
\* on which recorder it was (rec, 0 when there is none), whether recorded has
\* been reached since the stop; and, once the last of the checks armed by the stop action has run
\* (over), whether by then the transcription held text and whether the
\* session was then idle with an error shown. Nothing changes after over.
NoStopHist ==
  [rec |-> 0, reached |-> FALSE, over |-> FALSE,
   hadText |-> FALSE, idleWithError |-> FALSE, final |-> FALSE]

\* ----------------------------------------------------------- session: world
\* The handlers below are sequences of assignments and calls; each is written
\* as a function from the state before to the state after, on a record W that
\* holds every variable of the session.
World ==
  [currentText |-> currentText, websocket |-> websocket, isConnected |-> isConnected,
   jobId |-> jobId, authToken |-> authToken, selectedScenario |-> selectedScenario,
   recordingState |-> recordingState, transcription |-> transcription,
   feedback |-> feedback, isAnalyzing |-> isAnalyzing, showFeedback |-> showFeedback,
   error |-> error, apiStatus |-> apiStatus, audioRecorderRef |-> audioRecorderRef,
   socks |-> socks, recs |-> recs, mrs |-> mrs, streams |-> streams, atts |-> atts,
   timers |-> timers, ctx |-> ctx, fbInFlight |-> fbInFlight, nStarts |-> nStarts,
   nTryAgain |-> nTryAgain, nSubmits |-> nSubmits, nWsErrors |-> nWsErrors,
   fbSent |-> fbSent, sentimentSent |-> sentimentSent, lastReq |-> lastReq, resetDone |-> resetDone,
   stopHist |-> stopHist]

\* Time. No clock is kept. An instant is a pair [base, off]: off milliseconds
\* after the moment numbered base, where the moments are the events that come
\* from outside (a click, a message, a response) in the order they happen.
\* A timer callback runs at the instant it was armed for, and the events a
\* handler queues on a MediaRecorder are delivered at the handler's instant.
\* An outside event happens before every timer that is pending when it
\* happens: lim holds, for an earlier moment b, a pair <<b, o>> when the
\* instant is known to be no later than o milliseconds after b.
NoInstant == [base |-> 0, off |-> 0, lim |-> {}]

\* setTimeout(callback, ms): id names the object or invocation the callback
\* closes over; capState and capText are the recordingState and transcription
\* of the render whose handler armed it.
Timer(W, kind, ms, id, capState, capText) ==
  [kind |-> kind, ms |-> ms, id |-> id, capState |-> capState, capText |-> capText,
   base |-> W.ctx.base, off |-> W.ctx.off + ms,
   lim |-> {<<p[1], p[2] + ms>> : p \in W.ctx.lim}]

SetTimeout(W, kind, ms, id) ==
  [W EXCEPT !.timers = Append(@, Timer(W, kind, ms, id, "", <<>>))]

RemoveAt(seq, i) == SubSeq(seq, 1, i - 1) \o SubSeq(seq, i + 1, Len(seq))

\* Timer j is due before timer i for certain: both were armed from the same
\* moment and j comes first (in time, or in arming order at the same time),
\* or j counts no more milliseconds from an earlier moment, or j is known to
\* be due sooner after the moment of i than i is.
DueBefore(j, i) ==
  \/ /\ timers[j].base = timers[i].base
     /\ \/ timers[j].off < timers[i].off
        \/ timers[j].off = timers[i].off /\ j < i
  \/ /\ timers[j].base < timers[i].base
     /\ timers[j].off <= timers[i].off
  \/ \E p \in timers[j].lim : p[1] = timers[i].base /\ p[2] < timers[i].off

\* Events queued by the browser itself are delivered at once: the events of a
\* MediaRecorder that was stopped, and the error of a socket closed while it
\* was connecting. The answer to requestData() on a running recorder comes
\* when the encoder has something to give, or empty again and again: timers
\* may fire in between.
UrgentIn(W) ==
  \/ \E m \in MediaRecorderIds :
       \/ W.mrs[m].pendingStop
       \/ W.mrs[m].pendingData /\ W.mrs[m].state # "recording"
  \/ \E s \in SocketIds : W.socks[s].state = "aborting"

Urgent == UrgentIn(World)

CanFire(i) ==
  /\ ~Urgent
  /\ i \in 1..Len(timers)
  /\ \A j \in 1..Len(timers) : j # i => ~DueBefore(j, i)

\* The next moment.
Max(S) == CHOOSE x \in S : \A y \in S : y <= x
Pending == {<<timers[k].base, timers[k].off>> : k \in 1..Len(timers)}
             \cup UNION {timers[k].lim : k \in 1..Len(timers)}
FreshInstant ==
  [base |-> Max({0} \cup {timers[i].base : i \in 1..Len(timers)}) + 1, off |-> 0,
   lim |-> {p \in Pending : \A q \in Pending : q[1] = p[1] => p[2] <= q[2]}]

\* The state in which a handler of an outside event starts.
Outside == [World EXCEPT !.ctx = FreshInstant]

\* Moments are renumbered 1, 2, ... in their order, so that only the order of
\* the moments still referred to is kept.
Renumbered(tm, c, keep) ==
  LET bases == {tm[i].base : i \in 1..Len(tm)} \cup (IF keep THEN {c.base} ELSE {})
      rank(b) == Cardinality({x \in bases : x <= b})
      live == {tm[i].base : i \in 1..Len(tm)}
      limit(l) == {<<rank(p[1]), p[2]>> : p \in {q \in l : q[1] \in live}}
  IN [timers |-> [i \in 1..Len(tm) |-> [tm[i] EXCEPT !.base = rank(@), !.lim = limit(@)]],
      ctx |-> IF keep THEN [c EXCEPT !.base = rank(@), !.lim = limit(@)] ELSE NoInstant]

\* ------------------------------------------------- Home: service callbacks
\* onTranscriptionUpdate
OnTranscriptionUpdate(W, text) == [W EXCEPT !.transcription = text]

\* onTranscriptionComplete as it would run if its closure read the
\* recordingState of the latest render
OnTranscriptionCompleteLive(W, text) ==
  LET W1 == [W EXCEPT !.transcription = text]
  IN IF W.recordingState = "stopping"
     THEN [W1 EXCEPT !.recordingState = "recorded"]
     ELSE W1

\* onTranscriptionComplete
OnTranscriptionComplete(W, text) ==
  LET W1 == [W EXCEPT !.transcription = text]
  IN IF MountRecordingState = "stopping"
     THEN [W1 EXCEPT !.recordingState = "recorded"]
     ELSE W1

\* onError
OnError(W) ==
  LET W1 == [W EXCEPT !.error = "transcription"]
  IN IF MountRecordingState = "stopping"
     THEN [W1 EXCEPT !.recordingState = "idle"]
     ELSE W1

\* ---------------------------------------------------- RevAiService: methods
\* WebSocket.close() called by the client
SocketClose(W, s) ==
  IF W.socks[s].state = "open" THEN [W EXCEPT !.socks[s].state = "closing"]
  ELSE IF W.socks[s].state = "connecting" THEN [W EXCEPT !.socks[s].state = "aborting"]
  ELSE W

\* isReady
IsReady(W) == W.isConnected

\* disconnect when its try block throws: the catch block resets two fields
DisconnectCaught(W) == [W EXCEPT !.websocket = 0, !.isConnected = FALSE]

\* disconnect
Disconnect(W) ==
  LET s == W.websocket
      W1 == IF s # 0 /\ W.socks[s].state \in {"open", "connecting"}
            THEN SocketClose(W, s)
            ELSE W
  IN [W1 EXCEPT !.websocket = 0, !.isConnected = FALSE, !.currentText = <<>>,
                !.jobId = 0]

\* finishTranscription
FinishTranscription(W) ==
  IF ~W.isConnected \/ W.websocket = 0
  THEN IF W.currentText # <<>> THEN OnTranscriptionComplete(W, W.currentText) ELSE W
  ELSE SetTimeout(W, "finish", FinishWaitMs, 0)

\* finishTranscription: the callback of its one-second timer
FinishTimeout(W) ==
  LET W1 == IF W.currentText # <<>> THEN OnTranscriptionComplete(W, W.currentText) ELSE W
      s == W1.websocket
  IN IF s # 0 /\ W1.socks[s].state = "open" THEN SocketClose(W1, s) ELSE W1

\* sendAudioChunk, called by onDataAvailable when the service is ready: the
\* remote service hears audio when a chunk of encoded audio is written to an
\* open socket.
SendAudioChunk(W, size) ==
  LET s == W.websocket
  IN IF W.isConnected /\ s # 0 /\ size > SmallBlobLimit /\ W.socks[s].state = "open"
     THEN [W EXCEPT !.socks[s].heard = TRUE]
     ELSE W

\* onmessage, 'partial' or 'final': the callbacks of the controller that are
\* invoked for one message, in order, each with the text it is given.
Callbacks(currentTxt, type, text) ==
  LET result == ProcessTranscription(currentTxt, type, text)
  IN IF type = "final"
     THEN <<[name |-> "onTranscriptionComplete", text |-> FinalMerge(currentTxt, text)],
            [name |-> "onTranscriptionComplete", text |-> result]>>
     ELSE <<[name |-> "onTranscriptionUpdate", text |-> result]>>

\* onmessage, 'partial' or 'final': processTranscription and the callbacks.
\* A final calls onTranscriptionComplete inside processTranscription, before
\* the whitespace clean-up, and again with the result.
OnFragment(W, type, text) ==
  LET merged == IF type = "final" THEN FinalMerge(W.currentText, text)
                ELSE PartialMerge(W.currentText, text)
      result == ProcessTranscription(W.currentText, type, text)
      W1 == [W EXCEPT !.currentText = result]
  IN IF type = "final"
     THEN OnTranscriptionComplete(OnTranscriptionComplete(W1, merged), result)
     ELSE OnTranscriptionUpdate(W1, result)


\* --------------------------------------------------- AudioRecorder: methods
\* MediaRecorder.requestData(): a dataavailable event is queued
RequestData(W, m) == [W EXCEPT !.mrs[m].pendingData = TRUE]

\* MediaRecorder.stop(), and what the browser does to a recorder whose tracks
\* have all ended: it becomes inactive and a dataavailable event and then a
\* stop event are queued
MediaRecorderStop(W, m) ==
  [W EXCEPT !.mrs[m].state = "inactive", !.mrs[m].pendingData = TRUE,
            !.mrs[m].pendingStop = TRUE]

IsRecording(W, m) == m # 0 /\ W.mrs[m].state = "recording"

\* the onDataAvailable option given by handleStartRecording
OnDataAvailable(W, size) == IF IsReady(W) THEN SendAudioChunk(W, size) ELSE W

\* createDummyAudioChunk
CreateDummyAudioChunk(W, r) ==
  OnDataAvailable(
    [W EXCEPT !.recs[r].chunks = 1,
              !.recs[r].bytes = Min(BlobCap, @ + DummyChunkBytes)],
    DummyChunkBytes)

\* stopRecording without its test of the recorder's state
StopRecordingUnguarded(W, r) == SetTimeout(W, "stopDelay", StopDelayMs, r)

\* stopRecording
StopRecording(W, r) ==
  LET m == W.recs[r].mediaRecorder
  IN IF IsRecording(W, m)
     THEN LET W1 == RequestData(W, m)
              W2 == IF W1.recs[r].chunks = 0 THEN CreateDummyAudioChunk(W1, r) ELSE W1
          IN SetTimeout(W2, "stopDelay", StopDelayMs, r)
     ELSE W

\* stopRecording: the callback of its 200 ms timer
StopDelayTimeout(W, r) ==
  LET m == W.recs[r].mediaRecorder
  IN IF IsRecording(W, m) THEN MediaRecorderStop(W, m) ELSE W

RECURSIVE StopRecordersOf(_, _, _)
StopRecordersOf(W, st, ms) ==
  IF ms = {} THEN W
  ELSE LET m == CHOOSE x \in ms : TRUE
           W1 == IF W.mrs[m].stream = st /\ W.mrs[m].state = "recording"
                 THEN MediaRecorderStop(W, m)
                 ELSE W
       IN StopRecordersOf(W1, st, ms \ {m})

\* stopStream: every track is stopped, which ends the recorders fed by it
StopStream(W, r) ==
  LET st == W.recs[r].stream
  IN IF st # 0
     THEN LET W1 == [W EXCEPT !.streams[st] = IF @ = "live" THEN "ended" ELSE "endedAgain",
                              !.recs[r].stream = 0]
          IN StopRecordersOf(W1, st, MediaRecorderIds)
     ELSE W

\* dispose
Dispose(W, r) ==
  LET W1 == StopStream(StopRecording(W, r), r)
  IN [W1 EXCEPT !.recs[r].mediaRecorder = 0, !.recs[r].chunks = 0, !.recs[r].bytes = 0]

\* the onStop option given by handleStartRecording
OriginalOnStop(W) == IF IsReady(W) THEN FinishTranscription(W) ELSE W

\* the onStop handler installed by handleStopRecording on recorder r
WrappedOnStop(W, r) ==
  LET W1 == OriginalOnStop(W)
  IN IF W1.recs[r].bytes <= SmallBlobLimit
     THEN SetTimeout([W1 EXCEPT !.error = "noAudio"], "dummyIdle", DummyIdleMs, r)
     ELSE IF ~W1.recs[r].transcriptionFinalized /\ IsReady(W1)
          THEN FinishTranscription([W1 EXCEPT !.recs[r].transcriptionFinalized = TRUE])
          ELSE W1

\* mediaRecorder.onstop
OnStopEvent(W, m) ==
  LET r == W.mrs[m].rec
      W1 == IF W.recs[r].wrapped THEN WrappedOnStop(W, r) ELSE OriginalOnStop(W)
  IN StopStream(W1, r)

\* mediaRecorder.ondataavailable
OnDataAvailableEvent(W, m, size) ==
  LET r == W.mrs[m].rec
  IN IF size > 0
     THEN OnDataAvailable(
            [W EXCEPT !.recs[r].chunks = 1, !.recs[r].bytes = Min(BlobCap, @ + size)],
            size)
     ELSE LET cur == W.recs[r].mediaRecorder
          IN IF IsRecording(W, cur) THEN RequestData(W, cur) ELSE W

FreeMediaRecorder(W) ==
  CHOOSE m \in MediaRecorderIds :
    W.mrs[m].state = "unused" /\ \A k \in 1..(m - 1) : W.mrs[k].state # "unused"

\* new MediaRecorder(this.stream, options) and setupMediaRecorderEvents
NewMediaRecorder(W, r) ==
  LET m == FreeMediaRecorder(W)
  IN [W EXCEPT !.mrs[m] = [state |-> "inactive", rec |-> r, stream |-> W.recs[r].stream,
                           pendingData |-> FALSE, pendingStop |-> FALSE],
               !.recs[r].mediaRecorder = m]

\* startRecording: the three checks for a recorder that delivers no data
StallCondition(W, r) ==
  IsRecording(W, W.recs[r].mediaRecorder) /\ W.recs[r].chunks = 0

StallCheckTimeout(W, r) ==
  IF StallCondition(W, r) THEN RequestData(W, W.recs[r].mediaRecorder) ELSE W

StallRestartTimeout(W, r) ==
  IF StallCondition(W, r)
  THEN SetTimeout(MediaRecorderStop(W, W.recs[r].mediaRecorder),
                  "restart", RestartDelayMs, r)
  ELSE W

RestartTimeout(W, r) ==
  LET st == W.recs[r].stream
  IN IF st # 0 /\ W.streams[st] = "live"
     THEN LET W1 == NewMediaRecorder(W, r)
              m == W1.recs[r].mediaRecorder
          IN CreateDummyAudioChunk([W1 EXCEPT !.mrs[m].state = "recording"], r)
     ELSE CreateDummyAudioChunk(W, r)

\* ------------------------------------------------------------ Home: handlers
\* showApiSetupInstructions replaces the whole interface
UiShown(W) == ~(W.apiStatus.known /\ (~W.apiStatus.revai \/ ~W.apiStatus.groq))

\* handleStartRecording: its catch block
FailStart(W, a, kind) ==
  [W EXCEPT !.error = kind, !.recordingState = "idle", !.atts[a].pc = "failed"]

FreeSocket(W) ==
  CHOOSE s \in SocketIds :
    W.socks[s].state = "unused" /\ \A k \in 1..(s - 1) : W.socks[k].state # "unused"

HasFreeSocket(W) == \E s \in SocketIds : W.socks[s].state = "unused"

\* establishWebSocketConnection, called by connect() of start invocation a
\* for its content type number fmt
EstablishWebSocketConnection(W, a, fmt) ==
  LET s == FreeSocket(W)
  IN [W EXCEPT !.websocket = s,
               !.socks[s] = [state |-> "connecting", att |-> a, greeted |-> FALSE,
                             heard |-> FALSE],
               !.atts[a] = [@ EXCEPT !.pc = "ws", !.sock = s, !.fmt = fmt]]

\* resolve() of the promise made for socket s: connect() returns and
\* handleStartRecording waits 300 ms
ResolveConnection(W, s) ==
  LET a == W.socks[s].att
  IN IF W.atts[a].pc = "ws" /\ W.atts[a].sock = s
     THEN SetTimeout([W EXCEPT !.atts[a].pc = "delay"], "startDelay", StartDelayMs, a)
     ELSE W

\* reject() of the promise made for socket s: connect() tries the next
\* content type, and after the last one the rejection reaches handleStartRecording
RejectConnection(W, s) ==
  LET a == W.socks[s].att
  IN IF W.atts[a].pc = "ws" /\ W.atts[a].sock = s
     THEN IF W.atts[a].fmt < NumFormats
          THEN EstablishWebSocketConnection(W, a, W.atts[a].fmt + 1)
          ELSE FailStart(W, a, "startFailed")
     ELSE W

\* handleStartRecording up to its first await
HandleStartRecording(W) ==
  IF W.selectedScenario = 0 THEN [W EXCEPT !.error = "selectScenario"]
  ELSE IF W.apiStatus.known /\ (~W.apiStatus.revai \/ ~W.apiStatus.groq)
  THEN [W EXCEPT !.error = "apiKeysMissing"]
  ELSE LET a == W.nStarts + 1
           W1 == [W EXCEPT !.recordingState = "recording", !.error = "none",
                           !.feedback = "none", !.transcription = <<>>]
           W2 == IF IsReady(W1) THEN Disconnect(W1) ELSE W1
           W3 == IF W2.audioRecorderRef # 0 THEN Dispose(W2, W2.audioRecorderRef) ELSE W2
       IN [W3 EXCEPT !.recs[a].made = TRUE, !.audioRecorderRef = a,
                     !.currentText = <<>>, !.atts[a].pc = "setup", !.nStarts = a,
                     !.resetDone = FALSE, !.stopHist = NoStopHist]

\* handleStartRecording after the 300 ms delay: the readiness check and the
\* call of startRecording, which runs up to its await of getUserMedia
StartDelayTimeout(W, a) ==
  LET r == W.audioRecorderRef
  IN IF ~IsReady(W) \/ r = 0 THEN FailStart(W, a, "startFailed")
     ELSE [W EXCEPT !.recs[r].chunks = 0, !.recs[r].bytes = 0,
                    !.atts[a].pc = "gum", !.atts[a].rec = r]

FreeStream(W) ==
  CHOOSE st \in StreamIds :
    W.streams[st] = "unused" /\ \A k \in 1..(st - 1) : W.streams[k] # "unused"

\* startRecording from the result of getUserMedia to its 200 ms delay
GetUserMediaGranted(W, a) ==
  LET r == W.atts[a].rec
      st == FreeStream(W)
      W1 == [W EXCEPT !.streams[st] = "live", !.recs[r].stream = st]
  IN SetTimeout([NewMediaRecorder(W1, r) EXCEPT !.atts[a].pc = "recdelay"],
                "recorderStart", RecorderStartDelayMs, a)

\* startRecording after its 200 ms delay: mediaRecorder.start(250) throws when
\* the field is null, the recorder is not inactive or its stream has ended
RecorderStartTimeout(W, a) ==
  LET r == W.atts[a].rec
      m == W.recs[r].mediaRecorder
  IN IF m = 0 \/ W.mrs[m].state # "inactive" \/ W.streams[W.mrs[m].stream] # "live"
     THEN FailStart(W, a, "startFailed")
     ELSE LET W1 == [W EXCEPT !.mrs[m].state = "recording", !.atts[a].pc = "done"]
              W2 == SetTimeout(W1, "stallCheck1", StallCheck1Ms, r)
              W3 == SetTimeout(W2, "stallCheck2", StallCheck2Ms, r)
          IN SetTimeout(W3, "stallRestart", StallCheck3Ms, r)

\* handleStopRecording; the three checks it arms read the recordingState and
\* the transcription of the render in which the button was clicked
HandleStopRecording(W) ==
  LET r == W.audioRecorderRef
  IN IF r = 0
     THEN [W EXCEPT !.error = "recorderNotInitialized", !.recordingState = "idle"]
     ELSE LET W1 == [W EXCEPT !.recordingState = "stopping", !.recs[r].wrapped = TRUE,
                              !.recs[r].transcriptionFinalized = FALSE]
              W2 == StopRecording(W1, r)
              W3 == IF IsReady(W2)
                    THEN SetTimeout(W2, "backupFinalize", BackupFinalizeMs, r)
                    ELSE W2
              capState == W.recordingState
              capText == W.transcription
          IN [W3 EXCEPT
                !.timers = @ \o <<Timer(W, "progressCheck", ProgressCheckMs, r, capState, capText),
                                  Timer(W, "promoteCheck", PromoteCheckMs, r, capState, capText),
                                  Timer(W, "forceTimeout", ForceTimeoutMs, r, capState, capText)>>,
                !.stopHist = [@ EXCEPT !.rec = r]]

\* handleStopRecording: the callback of the 800 ms timer
BackupFinalizeTimeout(W, r) ==
  IF ~W.recs[r].transcriptionFinalized /\ IsReady(W)
  THEN FinishTranscription([W EXCEPT !.recs[r].transcriptionFinalized = TRUE])
  ELSE W

\* handleStopRecording: the callback of the 2000 ms timer
ProgressCheckTimeout(W, t) ==
  IF t.capState = "stopping" /\ Trim(t.capText) = <<>>
  THEN [W EXCEPT !.error = "processing"]
  ELSE W

\* handleStopRecording: the callback of the 3000 ms timer
PromoteCheckTimeout(W, t) ==
  IF t.capState = "stopping" /\ Trim(t.capText) # <<>>
  THEN [W EXCEPT !.recordingState = "recorded", !.error = "none"]
  ELSE W

\* handleStopRecording: the callback of the 4000 ms timer
ForceTimeout(W, t) ==
  IF t.capState = "stopping"
  THEN IF Trim(t.capText) # <<>>
       THEN [W EXCEPT !.recordingState = "recorded", !.error = "none"]
       ELSE Disconnect([W EXCEPT !.error = "noTranscription", !.recordingState = "idle"])
  ELSE W

\* the 300 ms timer armed by the wrapped onStop for a blob of at most 4 bytes
DummyIdleTimeout(W) == Disconnect([W EXCEPT !.recordingState = "idle"])

\* the auto-transition effect: the callback of its 500 ms timer
AutoTransitionTimeout(W, t) ==
  IF t.capState = "stopping" /\ Trim(t.capText) # <<>>
  THEN [W EXCEPT !.recordingState = "recorded"]
  ELSE W

\* handleTryAgain; the timer is tagged with the number of start actions so far
HandleTryAgain(W) ==
  SetTimeout([W EXCEPT !.recordingState = "idle"], "tryAgain", TryAgainMs, W.nStarts)

\* handleTryAgain: the callback of its 100 ms timer; resetDone records that the
\* reset has run with no start action since the click
TryAgainTimeout(W, t) ==
  LET W1 == Disconnect([W EXCEPT !.showFeedback = FALSE, !.transcription = <<>>,
                                 !.feedback = "none", !.error = "none"])
      r == W1.audioRecorderRef
      W2 == IF r # 0 THEN [Dispose(W1, r) EXCEPT !.audioRecorderRef = 0] ELSE W1
  IN [W2 EXCEPT !.resetDone = (t.id = W.nStarts)]

\* handleSubmitRecording issuing its request a second time
HandleSubmitRecordingTwice(W) ==
  IF W.selectedScenario = 0 THEN [W EXCEPT !.error = "noScenario"]
  ELSE LET trimmedTranscription == Trim(W.transcription)
       IN IF trimmedTranscription = <<>>
          THEN [W EXCEPT !.error = "noSpeech", !.recordingState = "idle"]
          ELSE IF W.apiStatus.known /\ ~W.apiStatus.groq
          THEN [W EXCEPT !.error = "groqKeyMissing"]
          ELSE [W EXCEPT !.error = "none", !.isAnalyzing = TRUE, !.showFeedback = TRUE,
                         !.fbInFlight = @ + 1, !.fbSent = @ + 2,
                         !.lastReq = [scenario |-> W.selectedScenario,
                                      transcription |-> trimmedTranscription]]

\* handleSubmitRecording up to its await: one request to /api/feedback
\* (GroqService.analyzeSpeakingResponse); no other collaborator is called
HandleSubmitRecording(W) ==
  IF W.selectedScenario = 0 THEN [W EXCEPT !.error = "noScenario"]
  ELSE LET trimmedTranscription == Trim(W.transcription)
       IN IF trimmedTranscription = <<>>
          THEN [W EXCEPT !.error = "noSpeech", !.recordingState = "idle"]
          ELSE IF W.apiStatus.known /\ ~W.apiStatus.groq
          THEN [W EXCEPT !.error = "groqKeyMissing"]
          ELSE [W EXCEPT !.error = "none", !.isAnalyzing = TRUE, !.showFeedback = TRUE,
                         !.fbInFlight = @ + 1, !.fbSent = @ + 1,
                         !.lastReq = [scenario |-> W.selectedScenario,
                                      transcription |-> trimmedTranscription]]

\* handleSubmitRecording after the response, with a catch block that sets
\* the substitute feedback and no error message
FeedbackReceivedSilent(W, ok) ==
  LET W1 == [W EXCEPT !.fbInFlight = @ - 1, !.isAnalyzing = FALSE]
  IN IF ok THEN [W1 EXCEPT !.feedback = "result"]
     ELSE [W1 EXCEPT !.feedback = "fallback"]

\* handleSubmitRecording after the response
FeedbackReceived(W, ok) ==
  LET W1 == [W EXCEPT !.fbInFlight = @ - 1, !.isAnalyzing = FALSE]
  IN IF ok THEN [W1 EXCEPT !.feedback = "result"]
     ELSE [W1 EXCEPT !.error = "feedbackFailed", !.feedback = "fallback"]

\* handleScenarioSelect
HandleScenarioSelect(W, sc) ==
  LET W1 == [W EXCEPT !.selectedScenario = sc]
  IN IF W.recordingState # "idle" THEN HandleTryAgain(W1) ELSE W1

\* ------------------------------------------------------ session: transitions
IsAuto(t) == t.kind = "autoTransition"
NotAuto(t) == t.kind # "autoTransition"

\* The effect on [recordingState, transcription] (page.tsx 118-135) runs after
\* a render that changed either: its clean-up clears the timer of the previous
\* run, and in stopping with a non-blank transcription it arms a new one.
\* The effect with its clean-up only: the timer of the previous run is
\* cleared and none is armed
AutoTransitionEffectCleanupOnly(W) == SelectSeq(W.timers, NotAuto)

AutoTransitionEffect(W) ==
  IF W.recordingState = recordingState /\ W.transcription = transcription
  THEN W.timers
  ELSE LET cleared == SelectSeq(W.timers, NotAuto)
       IN IF W.recordingState = "stopping" /\ Trim(W.transcription) # <<>>
          THEN Append(cleared, Timer(W, "autoTransition", AutoTransitionMs, 0,
                                     W.recordingState, W.transcription))
          ELSE cleared

StopHistAfter(W) ==
  IF W.stopHist.rec = 0 \/ W.stopHist.over THEN W.stopHist
  ELSE [W.stopHist EXCEPT !.reached = @ \/ W.recordingState = "recorded"]

\* Recorder r can still be given a MediaRecorder or have one started: by a
\* start invocation that is inside startRecording on it, by one that has yet
\* to reach startRecording while r is the recorder of the page, or by the
\* restart timer.
CanRecordAgain(W, r) ==
  \/ \E a \in Attempts : W.atts[a].rec = r /\ W.atts[a].pc \in {"gum", "recdelay"}
  \/ r = W.audioRecorderRef /\ \E a \in Attempts : W.atts[a].pc \in {"setup", "ws", "delay"}
  \/ \E i \in 1..Len(W.timers) : W.timers[i].kind = "restart" /\ W.timers[i].id = r

\* A timer whose callback can do nothing, now or later, is forgotten:
\*  - a check of handleStopRecording that captured a recordingState other
\*    than stopping, unless it marks the end of the stop action whose history
\*    is kept;
\*  - a check of startRecording for missing data on a recorder that has data
\*    or is not recording, and the delayed stop of stopRecording on a recorder
\*    that is not recording, when the recorder cannot record again.
IsCheck(t) == t.kind \in {"progressCheck", "promoteCheck", "forceTimeout"}
IsStallCheck(t) == t.kind \in {"stallCheck1", "stallCheck2", "stallRestart"}
Forgotten(W, t) ==
  \/ /\ IsCheck(t)
     /\ t.capState # "stopping"
     /\ ~(W.stopHist.rec = t.id /\ ~W.stopHist.over)
  \/ /\ IsStallCheck(t)
     /\ ~StallCondition(W, t.id)
     /\ ~CanRecordAgain(W, t.id)
  \/ /\ t.kind = "stopDelay"
     /\ ~IsRecording(W, W.recs[t.id].mediaRecorder)
     /\ ~CanRecordAgain(W, t.id)

RECURSIVE Remembered(_, _)
Remembered(W, tm) ==
  IF tm = <<>> THEN <<>>
  ELSE IF Forgotten(W, Head(tm)) THEN Remembered(W, Tail(tm))
  ELSE <<Head(tm)>> \o Remembered(W, Tail(tm))

\* The state after a handler has run and React has rendered.
CommitWorld(W) ==
  /\ poll' = poll
  /\ currentText' = W.currentText
  /\ websocket' = W.websocket
  /\ isConnected' = W.isConnected
  /\ jobId' = W.jobId
  /\ authToken' = W.authToken
  /\ selectedScenario' = W.selectedScenario
  /\ recordingState' = W.recordingState
  /\ transcription' = W.transcription
  /\ feedback' = W.feedback
  /\ isAnalyzing' = W.isAnalyzing
  /\ showFeedback' = W.showFeedback
  /\ error' = W.error
  /\ apiStatus' = W.apiStatus
  /\ audioRecorderRef' = W.audioRecorderRef
  /\ socks' = W.socks
  /\ recs' = W.recs
  /\ mrs' = W.mrs
  /\ streams' = W.streams
  /\ atts' = W.atts
  /\ LET after == Renumbered(Remembered(W, AutoTransitionEffect(W)), W.ctx, UrgentIn(W))
     IN timers' = after.timers /\ ctx' = after.ctx
  /\ fbInFlight' = W.fbInFlight
  /\ nStarts' = W.nStarts
  /\ nTryAgain' = W.nTryAgain
  /\ nSubmits' = W.nSubmits
  /\ nWsErrors' = W.nWsErrors
  /\ fbSent' = W.fbSent
  /\ sentimentSent' = W.sentimentSent
  /\ lastReq' = W.lastReq
  /\ resetDone' = W.resetDone
  /\ stopHist' = StopHistAfter(W)

\* The same for the handlers of the session, where what the client sends and
\* the history of its messages are not followed.
Commit(W) == CommitWorld(W) /\ UNCHANGED <<lastMsg, lastPartial, growing, clientVars>>

\* A user action after the stop action: its history is dropped.
Interfere(W) == [W EXCEPT !.stopHist = NoStopHist]

\* The user acts once the availability check has been answered (with the
\* status still null the interface behaves as it does with both services
\* available) and while the interface is shown; a click is not handled in the
\* middle of the events the browser has queued.
Interactive == apiStatus.known /\ UiShown(World) /\ ~Urgent

\* ------------------------------------------------------------- user actions
\* ScenarioDropdown.onSelect. The scenarios are interchangeable: the one
\* selected first is called 1, and the selection is changed only while a
\* recording is under way or held, which is the case the handler treats;
\* choosing the selected scenario again does the same as choosing another.
SelectScenario ==
  /\ Interactive
  /\ \E sc \in Scenarios :
       /\ recordingState = "idle" => selectedScenario = 0 /\ sc = 1
       /\ recordingState # "idle" => nTryAgain < MaxTryAgain /\ sc # selectedScenario
       /\ LET W == Interfere(HandleScenarioSelect(Outside, sc))
          IN Commit(IF recordingState # "idle" THEN [W EXCEPT !.nTryAgain = @ + 1] ELSE W)

\* MicrophoneButton.handleMainButtonClick, not recording and not recorded
ClickRecord ==
  /\ Interactive
  /\ recordingState \notin {"recording", "recorded"}
  /\ selectedScenario # 0 => nStarts < MaxStarts
  /\ Commit(HandleStartRecording(Interfere(Outside)))

\* The same two actions taken before checkApiAvailability has set apiStatus
\* (it is still null: the probes are unanswered, or one of them threw).
Unchecked == ~apiStatus.known /\ UiShown(World) /\ ~Urgent

SelectScenarioUnchecked ==
  /\ Unchecked
  /\ selectedScenario = 0
  /\ Commit(Interfere(HandleScenarioSelect(Outside, 1)))

ClickRecordUnchecked ==
  /\ Unchecked
  /\ recordingState \notin {"recording", "recorded"}
  /\ selectedScenario # 0 => nStarts < MaxStarts
  /\ Commit(HandleStartRecording(Interfere(Outside)))

\* MicrophoneButton.handleMainButtonClick, recording
ClickStop ==
  /\ Interactive
  /\ recordingState = "recording"
  /\ Cardinality({r \in RecorderIds : recs[r].wrapped}) < MaxStops
  /\ Commit(HandleStopRecording(Outside))

\* The Try Again buttons of MicrophoneButton (shown when recorded) and of
\* FeedbackCard (shown with the feedback panel)
ClickTryAgain ==
  /\ Interactive
  /\ recordingState = "recorded" \/ showFeedback
  /\ nTryAgain < MaxTryAgain
  /\ Commit([Interfere(HandleTryAgain(Outside)) EXCEPT !.nTryAgain = @ + 1])

\* The Submit button of MicrophoneButton (shown when recorded)
ClickSubmit ==
  /\ Interactive
  /\ recordingState = "recorded"
  /\ nSubmits < MaxSubmits
  /\ Commit([Interfere(HandleSubmitRecording(Outside)) EXCEPT !.nSubmits = @ + 1])

\* FeedbackCard.onClose
CloseFeedback ==
  /\ Interactive
  /\ showFeedback
  /\ Commit([Interfere(Outside) EXCEPT !.showFeedback = FALSE])

\* ------------------------------------------------------ environment actions
\* checkApiAvailability: both probes answered. They are answered before the
\* first recording is started or not at all: once the answer hides the
\* interface the session goes on as it does when the user does nothing more.
ApiCheckDone ==
  /\ ~Urgent
  /\ ~apiStatus.known
  /\ nStarts = 0
  /\ \E rv \in BOOLEAN, gq \in BOOLEAN :
       Commit([Outside EXCEPT !.apiStatus = [known |-> TRUE, revai |-> rv, groq |-> gq],
                              !.error = IF rv /\ gq THEN @ ELSE "apiKeysMissing"])

\* The secret of the server environment (env.REVAI_API_KEY), and the body with
\* which the transcribe route answers the action 'setup'.
REVAI_API_KEY == "REVAI_API_KEY"
TranscribeSetup == [apiKey |-> REVAI_API_KEY, streamingUrl |-> "REV_AI_STREAMING_URL"]

\* connect(): the setup response has been read; the credential of its body
\* is kept and goes into the URL of every socket opened for this call
SetupRead(W, responseData) == [W EXCEPT !.authToken = responseData.apiKey]

\* connect(): the answer to the setup request, while fewer than n start
\* actions have had theirs
SetupAnswered(n) ==
  /\ ~Urgent
  /\ \E a \in Attempts :
       /\ atts[a].pc = "setup"
       /\ Cardinality({b \in Attempts : atts[b].pc \notin {"none", "setup"}}) < n
       /\ \/ /\ HasFreeSocket(World)
             /\ Commit(EstablishWebSocketConnection(SetupRead(Outside, TranscribeSetup), a, 1))
          \/ Commit(FailStart(OnError(Outside), a, "startFailed"))
          \/ Commit(FailStart(OnError(Outside), a, "apiKey"))

SetupResponse == SetupAnswered(MaxSetupResponses)

\* The same with the request of every start action answered.
SetupResponseEach == SetupAnswered(MaxStarts)

\* websocket.onopen resolving connect() without waiting for 'connected'
WsOpenResolves ==
  /\ ~Urgent
  /\ \E s \in SocketIds :
       /\ socks[s].state = "connecting"
       /\ Commit(ResolveConnection([Outside EXCEPT !.socks[s].state = "open",
                                                   !.isConnected = TRUE], s))

\* websocket.onopen
WsOpen ==
  /\ ~Urgent
  /\ \E s \in SocketIds :
       /\ socks[s].state = "connecting"
       /\ Commit([Outside EXCEPT !.socks[s].state = "open", !.isConnected = TRUE])

\* websocket.onmessage, type 'connected'
WsConnectedMessage ==
  /\ ~Urgent
  /\ \E s \in SocketIds :
       /\ socks[s].state = "open"
       /\ ~socks[s].greeted
       /\ LET W == [Outside EXCEPT !.socks[s].greeted = TRUE]
          IN Commit(IF W.isConnected THEN ResolveConnection([W EXCEPT !.jobId = s], s)
                    ELSE W)

\* websocket.onmessage, type 'partial' or 'final'; the remote service has no
\* text to send before it has heard audio. While isConnected is false the
\* handler returns at once.
\* The same, with the history of the stop action: a final fragment has been
\* received in stopping and the callbacks have reported text for it.
OnFragmentRecorded(W, type, text) ==
  LET W1 == OnFragment(W, type, text)
  IN IF /\ type = "final"
        /\ W.recordingState = "stopping"
        /\ W.stopHist.rec # 0 /\ ~W.stopHist.over
        /\ Trim(W1.transcription) # <<>>
     THEN [W1 EXCEPT !.stopHist.final = TRUE]
     ELSE W1

Fragment(types) ==
  /\ ~Urgent
  /\ \E s \in SocketIds, type \in types, text \in SessionTexts :
       /\ socks[s].state = "open"
       /\ socks[s].greeted
       /\ text # <<>> => socks[s].heard
       /\ isConnected
       /\ Commit(OnFragmentRecorded(Outside, type, text))

WsFragment == Fragment({"partial", "final"})

\* The same from a service that sends partial fragments only.
WsPartialFragment == Fragment({"partial"})

\* websocket.onerror: a failure of the network or of the remote service
WsError ==
  /\ ~Urgent
  /\ nWsErrors < MaxWsErrors
  /\ \E s \in SocketIds :
       /\ socks[s].state \in {"connecting", "open"}
       /\ LET a == socks[s].att
          IN (atts[a].pc = "ws" /\ atts[a].sock = s /\ atts[a].fmt < NumFormats)
               => HasFreeSocket(World)
       /\ LET W1 == [Outside EXCEPT !.socks[s].state = "closing", !.isConnected = FALSE,
                                    !.nWsErrors = @ + 1]
          IN Commit(RejectConnection(OnError(W1), s))

\* websocket.onerror of a socket the client closed while it was connecting
WsAbortError ==
  \E s \in SocketIds :
    /\ socks[s].state = "aborting"
    /\ LET a == socks[s].att
       IN (atts[a].pc = "ws" /\ atts[a].sock = s /\ atts[a].fmt < NumFormats)
            => HasFreeSocket(World)
    /\ LET W1 == [World EXCEPT !.socks[s].state = "closing", !.isConnected = FALSE]
       IN Commit(RejectConnection(OnError(W1), s))

\* websocket.onclose
WsClose ==
  /\ ~Urgent
  /\ \E s \in SocketIds :
       /\ socks[s].state \in {"open", "closing"}
       /\ Commit([Outside EXCEPT !.socks[s].state = "closed", !.isConnected = FALSE])

\* startRecording: the result of getUserMedia
GetUserMediaResult ==
  /\ ~Urgent
  /\ \E a \in Attempts :
       /\ atts[a].pc = "gum"
       /\ \/ Commit(GetUserMediaGranted(Outside, a))
          \/ Commit(FailStart(Outside, a, "startFailed"))

\* mediaRecorder.ondataavailable at the end of a time slice, with encoded audio
MrTimeSlice ==
  /\ ~Urgent
  /\ \E m \in MediaRecorderIds :
       /\ mrs[m].state = "recording"
       /\ Commit(OnDataAvailableEvent(Outside, m, RealChunkBytes))

\* mediaRecorder.ondataavailable for a queued event (requestData or stop),
\* with encoded audio or with nothing
MrQueuedData ==
  \E m \in MediaRecorderIds, size \in {0, RealChunkBytes} :
    /\ mrs[m].pendingData
    /\ Commit(OnDataAvailableEvent([World EXCEPT !.mrs[m].pendingData = FALSE], m, size))

\* mediaRecorder.onstop
MrStop ==
  \E m \in MediaRecorderIds :
    /\ mrs[m].pendingStop
    /\ ~mrs[m].pendingData
    /\ Commit(OnStopEvent([World EXCEPT !.mrs[m].pendingStop = FALSE], m))

\* handleSubmitRecording: the answer to the feedback request
FeedbackResponse ==
  /\ ~Urgent
  /\ fbInFlight > 0
  /\ \E ok \in BOOLEAN : Commit(FeedbackReceived(Outside, ok))

\* ------------------------------------------------------------ timer actions
\* The pending timers of one kind that may fire now.
Firing(kind) == {i \in 1..Len(timers) : timers[i].kind = kind /\ CanFire(i)}

\* The world in which the callback of timer i runs: the timer has left the
\* queue and the callback runs at the timer's instant.
Fired(i) ==
  [World EXCEPT !.timers = RemoveAt(timers, i),
                !.ctx = [base |-> timers[i].base,
                         off |-> timers[i].off,
                         lim |-> timers[i].lim]]

\* The last check armed by the latest stop action has run: the history of
\* that stop is frozen.
ForceTimeoutRecorded(W, t) ==
  LET W1 == ForceTimeout(W, t)
  IN IF W1.stopHist.rec = t.id /\ ~W1.stopHist.over
     THEN [W1 EXCEPT !.stopHist =
             [StopHistAfter(W1) EXCEPT
                !.over = TRUE,
                !.hadText = (Trim(W1.transcription) # <<>>),
                !.idleWithError = (W1.recordingState = "idle" /\ W1.error # "none")]]
     ELSE W1

AutoTransitionFires == \E i \in Firing("autoTransition") : Commit(AutoTransitionTimeout(Fired(i), timers[i]))
StartDelayFires == \E i \in Firing("startDelay") : Commit(StartDelayTimeout(Fired(i), timers[i].id))
RecorderStartFires == \E i \in Firing("recorderStart") : Commit(RecorderStartTimeout(Fired(i), timers[i].id))
StallCheck1Fires == \E i \in Firing("stallCheck1") : Commit(StallCheckTimeout(Fired(i), timers[i].id))
StallCheck2Fires == \E i \in Firing("stallCheck2") : Commit(StallCheckTimeout(Fired(i), timers[i].id))
StallRestartFires == \E i \in Firing("stallRestart") : Commit(StallRestartTimeout(Fired(i), timers[i].id))
RestartFires == \E i \in Firing("restart") : Commit(RestartTimeout(Fired(i), timers[i].id))
StopDelayFires == \E i \in Firing("stopDelay") : Commit(StopDelayTimeout(Fired(i), timers[i].id))
BackupFinalizeFires == \E i \in Firing("backupFinalize") : Commit(BackupFinalizeTimeout(Fired(i), timers[i].id))
ProgressCheckFires == \E i \in Firing("progressCheck") : Commit(ProgressCheckTimeout(Fired(i), timers[i]))
PromoteCheckFires == \E i \in Firing("promoteCheck") : Commit(PromoteCheckTimeout(Fired(i), timers[i]))
ForceTimeoutFires == \E i \in Firing("forceTimeout") : Commit(ForceTimeoutRecorded(Fired(i), timers[i]))
DummyIdleFires == \E i \in Firing("dummyIdle") : Commit(DummyIdleTimeout(Fired(i)))
FinishWaitFires == \E i \in Firing("finish") : Commit(FinishTimeout(Fired(i)))
TryAgainFires == \E i \in Firing("tryAgain") : Commit(TryAgainTimeout(Fired(i), timers[i]))

\* ------------------------------------------------ specification of the session
SessionInit ==
  /\ websocket = 0
  /\ isConnected = FALSE
  /\ jobId = 0
  /\ authToken = ""
  /\ selectedScenario = 0
  /\ recordingState = "idle"
  /\ transcription = <<>>
  /\ feedback = "none"
  /\ isAnalyzing = FALSE
  /\ showFeedback = FALSE
  /\ error = "none"
  /\ apiStatus = [known |-> FALSE, revai |-> FALSE, groq |-> FALSE]
  /\ audioRecorderRef = 0
  /\ socks = [s \in SocketIds |-> NoSocket]
  /\ recs = [r \in RecorderIds |-> NoRecorder]
  /\ mrs = [m \in MediaRecorderIds |-> NoMediaRecorder]
  /\ streams = [st \in StreamIds |-> "unused"]
  /\ atts = [a \in Attempts |-> NoAttempt]
  /\ timers = <<>>
  /\ ctx = NoInstant
  /\ fbInFlight = 0
  /\ nStarts = 0
  /\ nTryAgain = 0
  /\ nSubmits = 0
  /\ nWsErrors = 0
  /\ fbSent = 0
  /\ sentimentSent = 0
  /\ lastReq = [scenario |-> 0, transcription |-> <<>>]
  /\ resetDone = FALSE
  /\ stopHist = NoStopHist

ReconInit ==
  /\ currentText = <<>>
  /\ lastMsg = NoMsg
  /\ lastPartial = <<>>
  /\ growing = TRUE

ClientInit ==
  /\ nChunks = 0
  /\ converting = {}
  /\ wire = <<>>
  /\ endReqs = 0
  /\ endPosted = {}
  /\ finalized = {}

PollInit == poll = NoPoll

Init == ReconInit /\ SessionInit /\ ClientInit /\ PollInit

\* Every step but the arrival of a fragment.
OtherStep ==
  \/ SelectScenario
  \/ ClickRecord
  \/ ClickStop
  \/ ClickTryAgain
  \/ ClickSubmit
  \/ CloseFeedback
  \/ ApiCheckDone
  \/ SetupResponse
  \/ WsOpen
  \/ WsConnectedMessage
  \/ WsError
  \/ WsAbortError
  \/ WsClose
  \/ GetUserMediaResult
  \/ MrTimeSlice
  \/ MrQueuedData
  \/ MrStop
  \/ FeedbackResponse
  \/ AutoTransitionFires
  \/ StartDelayFires
  \/ RecorderStartFires
  \/ StallCheck1Fires
  \/ StallCheck2Fires
  \/ StallRestartFires
  \/ RestartFires
  \/ StopDelayFires
  \/ BackupFinalizeFires
  \/ ProgressCheckFires
  \/ PromoteCheckFires
  \/ ForceTimeoutFires
  \/ DummyIdleFires
  \/ FinishWaitFires
  \/ TryAgainFires

Next == OtherStep \/ WsFragment

Spec == Init /\ [][Next]_vars

\* The session with a service that never sends a final fragment.
NextNoFinal == OtherStep \/ WsPartialFragment

SpecNoFinal == Init /\ [][NextNoFinal]_vars

\* The session up to the acquisition of the microphone, with the setup request
\* of every start action answered: start (also before the availability check
\* is answered), stop, change of scenario and start again, the connections and
\* the microphone grants. The recorder's events, the fragments and the
\* feedback are left to Spec.
NextRestart ==
  \/ ApiCheckDone
  \/ SelectScenario
  \/ SelectScenarioUnchecked
  \/ ClickRecord
  \/ ClickRecordUnchecked
  \/ ClickStop
  \/ SetupResponseEach
  \/ WsOpen
  \/ WsConnectedMessage
  \/ WsAbortError
  \/ WsClose
  \/ GetUserMediaResult
  \/ StartDelayFires
  \/ BackupFinalizeFires
  \/ ProgressCheckFires
  \/ PromoteCheckFires
  \/ ForceTimeoutFires
  \/ FinishWaitFires
  \/ TryAgainFires

SpecRestart == Init /\ [][NextRestart]_vars

\* ------------------------------------------ specification of the reconciliation
\* The stream client alone: fragments arrive in any order with any text.
\* connect() and disconnect() both clear the text buffer.
ReconReset ==
  /\ UNCHANGED <<sessionVars, clientVars, poll>>
  /\ currentText' = <<>>
  /\ lastMsg' = NoMsg
  /\ lastPartial' = <<>>
  /\ growing' = TRUE

\* A partial whose text extends the previous partial's text.
ReconGrowingPartial ==
  /\ UNCHANGED <<sessionVars, clientVars, poll>>
  /\ growing
  /\ \E ext \in TextsUpTo(MaxExtLen) \ {<<>>} :
       LET t == lastPartial \o ext
       IN /\ Len(t) <= MaxGrowLen
          /\ currentText' = ProcessTranscription(currentText, "partial", t)
          /\ lastMsg' = [type |-> "partial", text |-> t,
                         calls |-> Callbacks(currentText, "partial", t)]
          /\ lastPartial' = t
          /\ growing' = TRUE

\* A partial with any text.
ReconPartial ==
  /\ UNCHANGED <<sessionVars, clientVars, poll>>
  /\ Len(currentText) <= MaxTextLen
  /\ \E t \in TextsUpTo(MaxFragLen) :
       /\ currentText' = ProcessTranscription(currentText, "partial", t)
       /\ lastMsg' = [type |-> "partial", text |-> t,
                      calls |-> Callbacks(currentText, "partial", t)]
       /\ growing' = (growing /\ IsPrefix(lastPartial, t))
       /\ lastPartial' = IF growing' THEN t ELSE <<>>

\* A final with any text.
ReconFinal ==
  /\ UNCHANGED <<sessionVars, clientVars, poll>>
  /\ Len(currentText) <= MaxTextLen
  /\ \E t \in TextsUpTo(MaxFragLen) :
       /\ currentText' = ProcessTranscription(currentText, "final", t)
       /\ lastMsg' = [type |-> "final", text |-> t,
                      calls |-> Callbacks(currentText, "final", t)]
       /\ growing' = FALSE
       /\ lastPartial' = <<>>

ReconNext ==
  \/ ReconReset
  \/ ReconGrowingPartial
  \/ ReconPartial
  \/ ReconFinal

SpecRecon == Init /\ [][ReconNext]_vars

\* ------------------------------------------ specification of the stream client
\* The stream client alone: its methods are called in any order and the
\* remote side answers at any time. Its sockets belong to no start action.

\* sendEndOfStream up to its await: the endStream request is issued when the
\* client is connected, its socket is open and the job id is known
PostsEndStream(W) ==
  /\ W.isConnected
  /\ W.websocket # 0
  /\ W.socks[W.websocket].state = "open"
  /\ W.jobId # 0

EndStreamCalled ==
  IF PostsEndStream(World)
  THEN endReqs' = endReqs + 1 /\ endPosted' = endPosted \cup {jobId}
  ELSE UNCHANGED <<endReqs, endPosted>>

\* connect(), with its setup request answered
ClientConnect ==
  /\ ~Urgent
  /\ Cardinality({s \in SocketIds : socks[s].state # "unused"}) < MaxConnects
  /\ LET s == FreeSocket(World)
     IN CommitWorld([SetupRead(Outside, TranscribeSetup)
                       EXCEPT !.currentText = <<>>, !.websocket = s,
                                    !.socks[s] = [NoSocket EXCEPT !.state = "connecting"]])
  /\ UNCHANGED <<lastMsg, lastPartial, growing, clientVars>>

\* websocket.onmessage, type 'connected'
ClientConnectedMessage ==
  /\ ~Urgent
  /\ \E s \in SocketIds :
       /\ socks[s].state = "open"
       /\ ~socks[s].greeted
       /\ LET W == [Outside EXCEPT !.socks[s].greeted = TRUE]
          IN CommitWorld(IF W.isConnected THEN [W EXCEPT !.jobId = s] ELSE W)
  /\ UNCHANGED <<lastMsg, lastPartial, growing, clientVars>>

\* websocket.onerror and onclose of a socket closed while it was connecting
ClientAbort ==
  /\ \E s \in SocketIds :
       /\ socks[s].state = "aborting"
       /\ CommitWorld([World EXCEPT !.socks[s].state = "closed", !.isConnected = FALSE])
  /\ UNCHANGED <<lastMsg, lastPartial, growing, clientVars>>

\* sendAudioChunk up to arrayBuffer(); an empty chunk is ignored
ClientSendAudioChunk ==
  /\ ~Urgent
  /\ nChunks < MaxChunks
  /\ IsReady(World) /\ websocket # 0
  /\ nChunks' = nChunks + 1
  /\ \E size \in {0, RealChunkBytes} :
       converting' = IF size = 0 THEN converting ELSE converting \cup {nChunks + 1}
  /\ CommitWorld(Outside)
  /\ UNCHANGED <<lastMsg, lastPartial, growing, wire, endReqs, endPosted, finalized>>

\* sendAudioChunk: the callback of arrayBuffer(). The promises of different
\* chunks are settled in no fixed order.
ClientBufferReady ==
  /\ ~Urgent
  /\ \E k \in converting :
       /\ converting' = converting \ {k}
       /\ IF websocket # 0 /\ isConnected /\ socks[websocket].state = "open"
          THEN /\ wire' = Append(wire, [sock |-> websocket, data |-> k])
               /\ CommitWorld([Outside EXCEPT !.socks[websocket].heard = TRUE])
          ELSE /\ wire' = wire
               /\ CommitWorld(Outside)
  /\ UNCHANGED <<lastMsg, lastPartial, growing, nChunks, endReqs, endPosted, finalized>>

\* finishTranscription
ClientFinish ==
  /\ ~Urgent
  /\ Cardinality(finalized) + Len(SelectSeq(timers, LAMBDA t : t.kind = "finish"))
       < MaxFinishes
  /\ finalized' = IF /\ websocket # 0 /\ isConnected
                     /\ socks[websocket].state = "open" /\ socks[websocket].greeted
                  THEN finalized \cup {websocket} ELSE finalized
  /\ IF isConnected /\ websocket # 0 THEN EndStreamCalled
     ELSE UNCHANGED <<endReqs, endPosted>>
  /\ CommitWorld(FinishTranscription(Outside))
  /\ UNCHANGED <<lastMsg, lastPartial, growing, nChunks, converting, wire>>

\* sendEndOfStream after its await: 'EOS' is sent only when the endStream
\* request has succeeded and the socket held then is open
ClientEndStreamResponse ==
  /\ ~Urgent
  /\ endReqs > 0
  /\ endReqs' = endReqs - 1
  /\ \E ok \in BOOLEAN :
       wire' = IF ok /\ websocket # 0 /\ socks[websocket].state = "open"
               THEN Append(wire, [sock |-> websocket, data |-> EndOfStream])
               ELSE wire
  /\ CommitWorld(Outside)
  /\ UNCHANGED <<lastMsg, lastPartial, growing, nChunks, converting, endPosted, finalized>>

\* disconnect
ClientDisconnect ==
  /\ ~Urgent
  /\ IF isConnected /\ websocket # 0 THEN EndStreamCalled
     ELSE UNCHANGED <<endReqs, endPosted>>
  /\ CommitWorld(Disconnect(Outside))
  /\ UNCHANGED <<lastMsg, lastPartial, growing, nChunks, converting, wire, finalized>>

\* websocket.onmessage with data that JSON.parse rejects, the failure being
\* reported through onError
ClientUnparseableReported ==
  /\ ~Urgent
  /\ \E s \in SocketIds : socks[s].state = "open"
  /\ lastMsg' = [type |-> "unparseable", text |-> currentText, calls |-> <<>>]
  /\ CommitWorld(OnError(Outside))
  /\ UNCHANGED <<lastPartial, growing, clientVars>>

\* websocket.onmessage with data that JSON.parse rejects: the handler returns.
\* The history keeps the text buffer of that moment.
ClientUnparseable ==
  /\ ~Urgent
  /\ \E s \in SocketIds : socks[s].state = "open"
  /\ lastMsg' = [type |-> "unparseable", text |-> currentText, calls |-> <<>>]
  /\ CommitWorld(Outside)
  /\ UNCHANGED <<lastPartial, growing, clientVars>>

NextClient ==
  \/ ClientConnect
  \/ WsOpen
  \/ ClientConnectedMessage
  \/ WsFragment
  \/ ClientUnparseable
  \/ WsClose
  \/ ClientAbort
  \/ ClientSendAudioChunk
  \/ ClientBufferReady
  \/ ClientFinish
  \/ ClientEndStreamResponse
  \/ FinishWaitFires
  \/ ClientDisconnect

SpecClient == Init /\ [][NextClient]_vars

\* ------------------------------------ specification of the sentiment polling
\* RevAiSentimentService.waitForJobCompletion, one call. log holds what each
\* status check returned; the length of the backoff delay plays no part in
\* the number or the order of the steps and is not kept.
StatusAnswers == {"in_progress", "completed", "failed", "error"}

\* the head of the while loop without attempts++
LoopHeadNoCount(p) ==
  IF p.attempts < p.maxAttempts
  THEN [p EXCEPT !.pc = "status"]
  ELSE [p EXCEPT !.pc = "done", !.outcome = "error"]

\* the head of the while loop, and the throw that follows the loop
LoopHead(p) ==
  IF p.attempts < p.maxAttempts
  THEN [p EXCEPT !.attempts = @ + 1, !.pc = "status"]
  ELSE [p EXCEPT !.pc = "done", !.outcome = "error"]

\* the catch block of the loop body
Catch(p) ==
  IF p.attempts >= p.maxAttempts
  THEN [p EXCEPT !.pc = "done", !.outcome = "error"]
  ELSE [p EXCEPT !.pc = "waitErr"]

\* the loop body after getJobStatus has settled with answer a ("error": the
\* request failed or was answered with a status that is not ok)
AfterStatus(p, a) ==
  LET q == [p EXCEPT !.log = Append(@, a)]
  IN IF a = "completed" THEN [q EXCEPT !.pc = "results"]
     ELSE IF a \in {"failed", "error"} THEN Catch(q)
     ELSE [q EXCEPT !.pc = "wait"]

\* the loop body after getSentimentResults has settled
AfterResults(p, ok) ==
  IF ok THEN [p EXCEPT !.pc = "done", !.outcome = "results"] ELSE Catch(p)

PollStep(q) ==
  /\ poll' = q
  /\ UNCHANGED <<reconVars, sessionVars, clientVars>>

\* a call of waitForJobCompletion(jobId, maxAttempts)
PollCall ==
  /\ poll.pc = "idle"
  /\ \E n \in 0..MaxPollAttempts : PollStep(LoopHead([poll EXCEPT !.maxAttempts = n]))

\* the answer to a status check
PollStatusAnswer ==
  /\ poll.pc = "status"
  /\ \E a \in StatusAnswers : PollStep(AfterStatus(poll, a))

\* the answer to the request for the results
PollResultsAnswer ==
  /\ poll.pc = "results"
  /\ \E ok \in BOOLEAN : PollStep(AfterResults(poll, ok))

\* the timer awaited before the next check has fired
PollDelayElapsed ==
  /\ poll.pc \in {"wait", "waitErr"}
  /\ PollStep(LoopHead(poll))

PollNext ==
  \/ PollCall
  \/ PollStatusAnswer
  \/ PollResultsAnswer
  \/ PollDelayElapsed

SpecPoll == Init /\ [][PollNext]_vars

\* Every request is answered and every timer fires.
SpecPollFair == SpecPoll /\ WF_vars(PollNext)

\* ------------------------------------------------------------------ claims

\* C1: after any chain of partial fragments on one connection in which each
\* fragment's text extends the previous one's, the running transcript is the
\* whitespace-normalized text of the last fragment.
C1_GrowingPartialsYieldLast ==
  growing => currentText = Normalize(lastPartial)

\* C2: a final fragment whose text is already contained in the running
\* transcript leaves the running transcript exactly as it was.
C2_ContainedFinalKeepsText ==
  [][(lastMsg'.type = "final" /\ Includes(currentText, lastMsg'.text))
       => currentText' = currentText]_vars

C2_Witness ==
  /\ lastMsg.type = "final"
  /\ Len(lastMsg.text) >= 1
  /\ Trim(lastMsg.text) # <<>>
  /\ Includes(currentText, lastMsg.text)
  /\ Len(currentText) > Len(lastMsg.text)

\* C3: between two resets the running transcript never gets shorter, whatever
\* partial and final fragments arrive.
C3_NeverShrinksWithinRecording ==
  [][lastMsg'.type \in {"partial", "final"}
       => Len(currentText') >= Len(currentText)]_vars

\* The session is at rest: no timer is armed, no queued event is undelivered,
\* no start invocation is under way, nothing records, no socket is connecting
\* or open and no feedback request is unanswered.
Quiescent ==
  /\ timers = <<>>
  /\ ~Urgent
  /\ \A a \in Attempts : atts[a].pc \in {"none", "done", "failed"}
  /\ \A m \in MediaRecorderIds : mrs[m].state # "recording"
  /\ \A s \in SocketIds : socks[s].state \notin {"connecting", "open"}
  /\ fbInFlight = 0

\* C4: once the reset of try-again has run, and until the next start action,
\* the session is idle with no transcript and no feedback, the service holds
\* no connection, no socket is connecting or open, and no microphone stream
\* is live.
C4_TryAgainLeavesCleanIdle ==
  resetDone =>
    /\ recordingState = "idle"
    /\ transcription = <<>>
    /\ feedback = "none"
    /\ websocket = 0
    /\ ~isConnected
    /\ \A s \in SocketIds : socks[s].state \notin {"connecting", "open"}
    /\ \A st \in StreamIds : streams[st] # "live"

\* C5: with a service that never sends a final fragment, when the last check
\* armed by a stop action has run and the transcription holds text received as
\* partial fragments, the session has reached recorded.
C5_PartialTextReachesRecorded ==
  (stopHist.over /\ stopHist.hadText) => stopHist.reached

\* C6: when everything armed by a stop action has run and no fragment has
\* carried text, the session has left stopping: it is idle and shows an error.
C6_NoTextReturnsToIdle ==
  (stopHist.over /\ ~stopHist.hadText /\ transcription = <<>> /\ Quiescent)
    => (recordingState = "idle" /\ error # "none")

\* C7: in the recorded state the transcription is not blank.
C7_RecordedHasTranscript ==
  recordingState = "recorded" => Trim(transcription) # <<>>

C7_Witness ==
  /\ recordingState = "recorded"
  /\ stopHist.reached
  /\ Trim(transcription) # <<>>

\* C8: a submit action with a scenario selected and a transcription that is
\* not blank issues exactly one feedback request, carrying that scenario and
\* the trimmed transcription.
C8_SubmitIssuesOneRequest ==
  [][(nSubmits' = nSubmits + 1 /\ selectedScenario # 0 /\ Trim(transcription) # <<>>)
       => /\ fbSent' = fbSent + 1
          /\ lastReq' = [scenario |-> selectedScenario,
                         transcription |-> Trim(transcription)]]_vars

C8_Witness ==
  /\ nSubmits = 1
  /\ fbSent = 1
  /\ lastReq.scenario = selectedScenario
  /\ lastReq.transcription # <<>>

\* C9: a submit action that issues the feedback request also sends the
\* transcript to the sentiment collaborator.
C9_SubmitSendsSentiment ==
  [][fbSent' = fbSent + 1 => sentimentSent' = sentimentSent + 1]_vars

\* C10: every change of the session state is idle to recording, recording to
\* stopping, stopping to recorded, or a return to idle.
C10_StateChangesForward ==
  [][recordingState' # recordingState =>
       \/ recordingState' = "idle"
       \/ <<recordingState, recordingState'>> \in
            {<<"idle", "recording">>, <<"recording", "stopping">>,
             <<"stopping", "recorded">>}]_vars

\* C11: in every state at most one socket is open and at most one microphone
\* stream is live.
C11_OneConnectionOneCapture ==
  /\ Cardinality({s \in SocketIds : socks[s].state = "open"}) <= 1
  /\ Cardinality({st \in StreamIds : streams[st] = "live"}) <= 1

\* C12: isReady() is true only when the socket held has received its
\* 'connected' message.
C12_ReadyOnlyAfterConnected ==
  IsReady(World) => websocket # 0 /\ socks[websocket].greeted

\* C13: once a start action has failed, the socket it created is neither
\* connecting nor open and the microphone stream it acquired is not live.
C13_FailedStartHoldsNothing ==
  \A a \in Attempts :
    atts[a].pc = "failed" =>
      /\ atts[a].sock # 0 => socks[atts[a].sock].state \notin {"connecting", "open"}
      /\ atts[a].rec # 0 /\ recs[atts[a].rec].stream # 0
           => streams[recs[atts[a].rec].stream] # "live"

\* C14: the session is recording only with a scenario selected and both
\* services found available by the availability check.
C14_RecordingNeedsScenarioAndServices ==
  recordingState = "recording" =>
    selectedScenario # 0 /\ apiStatus.known /\ apiStatus.revai /\ apiStatus.groq

\* C15: an attempt that has called getUserMedia has a socket that received
\* 'connected', and every microphone stream ever granted was asked for by
\* such an attempt.
C15_CaptureAfterConfirmation ==
  LET Confirmed(a) == atts[a].sock # 0 /\ socks[atts[a].sock].greeted
  IN /\ \A a \in Attempts : atts[a].rec # 0 => Confirmed(a)
     /\ \A st \in StreamIds :
          streams[st] # "unused" =>
            \E a \in Attempts : atts[a].rec # 0 /\ Confirmed(a)
                                /\ atts[a].pc \notin {"delay", "gum"}

C15_Witness ==
  \E a \in Attempts :
    /\ atts[a].rec # 0
    /\ recs[atts[a].rec].stream # 0
    /\ streams[recs[atts[a].rec].stream] = "live"
    /\ socks[atts[a].sock].greeted

\* C16: the audio chunks are sent on the socket in the order in which they
\* were handed to sendAudioChunk.
C16_ChunksSentInOrder ==
  \A i, j \in 1..Len(wire) :
    (i < j /\ wire[i].data # EndOfStream /\ wire[j].data # EndOfStream)
      => wire[i].data < wire[j].data

\* C17: when finishTranscription has been called on a socket that was open
\* and confirmed, and the request and the timer it started are over, 'EOS' has
\* been sent on that socket and an endStream request was issued for its job.
C17_FinalizeSendsBothSignals ==
  \A s \in finalized :
    (endReqs = 0 /\ \A i \in 1..Len(timers) : timers[i].kind # "finish")
      => /\ \E i \in 1..Len(wire) : wire[i] = [sock |-> s, data |-> EndOfStream]
         /\ s \in endPosted

\* C18: in whatever state disconnect() is called, when it returns the client
\* holds no socket, its text buffer is empty, its job id is unset and it is
\* not ready.
C18_DisconnectLeavesNothing ==
  LET D == Disconnect(Outside)
  IN D.websocket = 0 /\ D.currentText = <<>> /\ D.jobId = 0 /\ ~IsReady(D)

C18_Witness ==
  /\ websocket # 0 /\ socks[websocket].state = "open"
  /\ isConnected /\ jobId # 0 /\ currentText # <<>>

\* C19: disconnect() on a client already disconnected, and stopRecording() and
\* dispose() on a recorder already stopped or disposed, change nothing (no
\* timer armed, no callback run) and issue no endStream request.
C19_TeardownIdempotent ==
  /\ LET D == Disconnect(Outside)
     IN Disconnect(D) = D /\ ~PostsEndStream(D)
  /\ \A r \in RecorderIds :
       recs[r].made =>
         /\ LET W1 == Dispose(Outside, r)
            IN Dispose(W1, r) = W1 /\ StopRecording(W1, r) = W1
         /\ ~IsRecording(World, recs[r].mediaRecorder)
              => StopRecording(Outside, r) = Outside

C19_Witness ==
  /\ resetDone /\ websocket = 0 /\ ~isConnected
  /\ \E s \in SocketIds : socks[s].greeted
  /\ \E st \in StreamIds : streams[st] = "ended"
  /\ \E r \in RecorderIds : recs[r].made /\ recs[r].mediaRecorder = 0

\* C20: the step of an unparseable message changes nothing of the client and
\* of the session: the socket stays open, the client ready, the text buffer
\* and the job id as they were, nothing sent and no callback run; a later
\* fragment therefore meets the state it would have met without it.
C20_UnparseableSkipped ==
  [][lastMsg' # lastMsg /\ lastMsg'.type = "unparseable"
       => UNCHANGED <<currentText, sessionVars, clientVars>>]_vars

\* an unparseable message arrived on a ready connection with a job id, and a
\* fragment has been merged into the text buffer since
C20_Witness ==
  /\ lastMsg.type = "unparseable"
  /\ isConnected /\ jobId # 0
  /\ Len(currentText) > Len(lastMsg.text)

\* C21: a step in which a socket error is reported (websocket.onerror of a
\* failure of the network or of the remote service) creates no socket.
C21_ErrorStartsNoConnection ==
  [][nWsErrors' # nWsErrors
       => \A s \in SocketIds : socks[s].state = "unused" => socks'[s].state = "unused"]_vars

\* C22: no microphone stream is released twice, and a stream that is live
\* and being recorded is held by the recorder of the session, which the stop
\* and reset actions release.
C22_StreamReleasedOnce ==
  \A st \in StreamIds :
    /\ streams[st] # "endedAgain"
    /\ (streams[st] = "live" /\ \E m \in MediaRecorderIds :
                                  mrs[m].stream = st /\ mrs[m].state = "recording")
         => audioRecorderRef # 0 /\ recs[audioRecorderRef].stream = st

\* C23: when the restart armed by the 2000 ms check has run for a recorder,
\* the recorder holds a chunk and a new encoder is recording on its live
\* microphone stream.
C23_StallRestartRecreatesEncoder ==
  [][\A r \in RecorderIds :
       LET Waiting(tm) == Len(SelectSeq(tm, LAMBDA t : t.kind = "restart" /\ t.id = r))
           m == recs'[r].mediaRecorder
       IN Waiting(timers') < Waiting(timers)
            => /\ recs'[r].chunks > 0
               /\ m # 0 /\ mrs'[m].state = "recording"
               /\ streams'[mrs'[m].stream] = "live"]_vars

\* C24: a transport error reported through the error callback while the
\* session is recording or stopping, its start having completed, leaves the
\* session idle with an error message.
C24_ErrorReturnsToIdle ==
  [][(/\ nWsErrors' # nWsErrors
      /\ recordingState \in {"recording", "stopping"}
      /\ nStarts > 0 /\ atts[nStarts].pc = "done")
       => recordingState' = "idle" /\ error' # "none"]_vars

\* C25: the 800 ms timer armed by a stop action, running when the session
\* is recording again with a later recorder, changes neither the session
\* state, nor the error message, nor the connection, and starts no
\* finalization of the connection.
C25_StaleStopTimerInert ==
  [][\A r \in RecorderIds :
       LET Armed(tm) == Len(SelectSeq(tm, LAMBDA t : t.kind = "backupFinalize" /\ t.id = r))
           Finishing(tm) == Len(SelectSeq(tm, LAMBDA t : t.kind = "finish"))
       IN (/\ Armed(timers') < Armed(timers)
           /\ recordingState = "recording"
           /\ audioRecorderRef \notin {0, r})
            => /\ recordingState' = recordingState
               /\ error' = error
               /\ websocket' = websocket /\ isConnected' = isConnected /\ socks' = socks
               /\ Finishing(timers') <= Finishing(timers)]_vars

\* C26 as stated: a feedback request that is answered without a result
\* leaves an error message and no feedback attached to the session.
C26_FailedFeedbackAttachesNothing ==
  [][(fbInFlight' < fbInFlight /\ feedback' # "result")
       => error' = "feedbackFailed" /\ feedback' = "none"]_vars

\* C26: a feedback request that is answered without a result leaves an
\* error message and the substitute feedback of the catch block, never a
\* result of the service, and the feedback panel stays as it was.
C26_FailedFeedbackSurfaced ==
  [][(fbInFlight' < fbInFlight /\ feedback' # "result")
       => /\ error' = "feedbackFailed"
          /\ feedback' = "fallback"
          /\ ~isAnalyzing'
          /\ showFeedback' = showFeedback]_vars

C26_Witness ==
  error = "feedbackFailed" /\ feedback = "fallback" /\ showFeedback /\ fbInFlight = 0

\* C27: the credential held by the client is never the secret of the server
\* environment.
C27_SecretStaysOnServer == authToken # REVAI_API_KEY

\* C28: a partial fragment with text, arriving when the running transcript
\* is not empty. When the fragment begins with the last three words of the
\* transcript, the transcript is extended by the text that follows them;
\* otherwise, when the transcript does not contain the fragment, it is
\* extended by one space and the fragment; otherwise it is unchanged.
C28_PartialMergeCases ==
  [][(lastMsg'.type = "partial" /\ Trim(lastMsg'.text) # <<>> /\ currentText # <<>>)
       => LET fragment == Trim(lastMsg'.text)
              window == Join(SliceLast3(Split(currentText)))
          IN IF IsPrefix(window, fragment)
             THEN currentText' = Normalize(currentText \o Substring(fragment, Len(window)))
             ELSE IF ~Includes(currentText, fragment)
             THEN currentText' = Normalize(currentText \o <<" ">> \o fragment)
             ELSE currentText' = currentText]_vars

\* C29: after a fragment has been processed the running transcript neither
\* begins nor ends with whitespace and has no two whitespace characters in
\* a row.
C29_TranscriptNormalized ==
  lastMsg.type \in {"partial", "final"}
    => /\ currentText = <<>> \/ (Head(currentText) \notin Whitespace
                                  /\ currentText[Len(currentText)] \notin Whitespace)
       /\ \A i \in 1..(Len(currentText) - 1) :
            ~(currentText[i] \in Whitespace /\ currentText[i + 1] \in Whitespace)

\* A fragment with whitespace at its ends and a run of whitespace inside has
\* been merged into a transcript that has text.
C29_Witness ==
  /\ lastMsg.type \in {"partial", "final"}
  /\ \E i \in 1..(Len(lastMsg.text) - 1) :
       lastMsg.text[i] \in Whitespace /\ lastMsg.text[i + 1] \in Whitespace
  /\ Trim(lastMsg.text) # <<>>
  /\ \E i \in 1..Len(currentText) : currentText[i] \in Whitespace

C31_FragmentDeliveredOnce ==
  LET Calls(n) == Len(SelectSeq(lastMsg.calls, LAMBDA c : c.name = n))
  IN /\ lastMsg.type = "final" => Calls("onTranscriptionComplete") <= 1
     /\ lastMsg.type = "partial" => Calls("onTranscriptionUpdate") <= 1

\* C32: stream finalization is performed at most once per stop action; the
\* handlers that run for one event start at most one finalization (each call
\* of finishTranscription on a ready connection arms its one-second timer).
C32_FinalizedOncePerStop ==
  [][LET Finishing(tm) == Len(SelectSeq(tm, LAMBDA t : t.kind = "finish"))
     IN Finishing(timers') <= Finishing(timers) + 1]_vars

\* C33: while the session is idle or recorded, with no reset of try-again
\* still to run and no event of a stopped encoder undelivered, no microphone
\* stream is live.
C33_NoCaptureOutsideRecording ==
  (/\ recordingState \in {"idle", "recorded"}
   /\ ~Urgent
   /\ \A i \in 1..Len(timers) : timers[i].kind \notin {"tryAgain", "stopDelay", "dummyIdle"})
    => \A st \in StreamIds : streams[st] # "live"

\* C34: while the client holds a confirmed connection with its ready flag
\* set, a step in which another socket closes, and in which the socket held
\* is untouched, leaves the ready flag and the running transcript as they
\* were.
C34_OldSocketEventsIgnored ==
  [][\A s \in SocketIds :
       (/\ websocket # 0 /\ websocket' = websocket /\ s # websocket
        /\ isConnected /\ socks[websocket].state = "open" /\ socks[websocket].greeted
        /\ socks'[websocket] = socks[websocket]
        /\ socks[s].state # "closed" /\ socks'[s].state = "closed")
         => isConnected' /\ currentText' = currentText]_vars

\* C35: when the one-second timer of finishTranscription runs after the
\* socket held when it was armed has been torn down and another socket is
\* held, the socket held is not closed and no completion is reported to the
\* controller.
C35_FinishTimerOwnAttempt ==
  [][(/\ Len(SelectSeq(timers', LAMBDA t : t.kind = "finish"))
            < Len(SelectSeq(timers, LAMBDA t : t.kind = "finish"))
      /\ finalized # {} /\ websocket # 0 /\ websocket \notin finalized
      /\ \A f \in finalized : socks[f].state \in {"closing", "closed"})
       => /\ socks'[websocket].state = socks[websocket].state
          /\ transcription' = transcription]_vars

\* C36: a recorder whose encoder reference has been cleared by dispose()
\* receives no further chunk (its chunk callback is not called) and no stop
\* event of an encoder it created is handled (its completion callback is not
\* called).
C36_DisposedRecorderSilent ==
  [][\A r \in RecorderIds :
       (recs[r].made /\ recs[r].mediaRecorder = 0 /\ recs'[r].mediaRecorder = 0)
         => /\ recs'[r].chunks <= recs[r].chunks
            /\ \A m \in MediaRecorderIds :
                 mrs[m].rec = r => ~(mrs[m].pendingStop /\ ~mrs'[m].pendingStop)]_vars

\* C37: the stop event of an encoder, whose handler calls the completion
\* callback and releases the microphone stream, is handled only for a
\* recorder on which stopRecording() (by the stop action) or dispose() has
\* been called.
C37_NoStopWithoutRequest ==
  [][\A m \in MediaRecorderIds :
       (mrs[m].pendingStop /\ ~mrs'[m].pendingStop)
         => LET r == mrs[m].rec
            IN recs[r].wrapped \/ recs[r].mediaRecorder = 0]_vars

\* C38: once the reset of try-again has run, and until the next start
\* action (no submit action can issue a request before it), no feedback is
\* attached to the session, whatever response arrives.
C38_LateFeedbackDiscarded ==
  resetDone => feedback = "none"

\* C39: a call of waitForJobCompletion issues at most maxAttempts status
\* checks, ends with the results or with an error, and does end.
C39_PollingTerminates ==
  /\ [](/\ Len(poll.log) <= poll.maxAttempts
        /\ poll.pc = "done" <=> poll.outcome \in {"results", "error"})
  /\ <>(poll.pc = "done")

C39_Witness ==
  /\ poll.pc = "done"
  /\ poll.maxAttempts = MaxPollAttempts
  /\ Len(poll.log) = MaxPollAttempts
  /\ poll.outcome = "error"

\* C40: after a status check has reported the job as failed, no further
\* status check is issued and the call ends with an error.
C40_FailedJobStopsPolling ==
  /\ \A i \in 1..(Len(poll.log) - 1) : poll.log[i] # "failed"
  /\ (poll.log # <<>> /\ poll.log[Len(poll.log)] = "failed")
       => poll.pc = "done" /\ poll.outcome = "error"

====
